---- MODULE Spec2Model ----
(***************************************************************************)
(* A model of the mini-rag pipeline: the streaming generation monitor and  *)
(* the retriever of run.py, the file walker, record builder and corpus     *)
(* writer of extract.py, and the corpus seeding of setup.py.               *)
(*                                                                         *)
(* Strings are sequences of one-character strings, so that split(),        *)
(* strip(), suffix and lower() are computed and not assumed.               *)
(***************************************************************************)
EXTENDS Integers, Sequences, FiniteSets, TLC

VARIABLES
    \* ---- run.py, stream_generate ----
    lines,          \* the lines s.iter_lines() will yield, in order
    num_predict,    \* the num_predict argument
    pos,            \* how many lines the for loop has taken from the iterator
    generated,      \* local `generated`
    tokens,         \* local `tokens`
    doneSeen,       \* a parsed chunk had a truthy "done"
    progressLine,   \* percentage of the last "\r[generate] ..." line on stdout, -1: none
    spc,            \* control point of stream_generate
    result,         \* the returned string
    returns,        \* how many times stream_generate has returned
    \* ---- run.py, build_index / retrieve ----
    texts,          \* the loaded document list
    idx,            \* the vectors held by the FAISS index
    rpc,            \* control point of the query session
    k,              \* the k of the last retrieve call
    hits,           \* positions of texts the last retrieve call read
    results,        \* the list the last retrieve call returned
    \* ---- extract.py, file_iter ----
    tree,           \* the filesystem snapshot below the root
    stack,          \* os.walk: the directories still to list, next first
    out,            \* the paths file_iter has yielded, in order
    prevOut,        \* the paths the previous complete walk yielded
    hasPrev,        \* a previous walk of the snapshot has completed
    \* ---- extract.py main, setup.py ensure_corpus ----
    corpus,         \* data/corpus.jsonl: whether it exists, and its lines
    epc,            \* control point of extract.py's main
    manifest,       \* local `manifest`
    items,          \* local `items`
    next            \* how many yielded paths the loop of main has taken

streamVars == <<lines, num_predict, pos, generated, tokens, doneSeen,
                progressLine, spc, result, returns>>
retrVars == <<texts, idx, rpc, k, hits, results>>
walkVars == <<tree, stack, out, prevOut, hasPrev>>
extractVars == <<corpus, epc, manifest, items, next>>

Max(a, b) == IF a >= b THEN a ELSE b
Min(a, b) == IF a <= b THEN a ELSE b

(***************************************************************************)
(* Bounds of the model.                                                    *)
(***************************************************************************)
MaxLines == 3
MaxDocs == 3
MaxK == 4

(***************************************************************************)
(* str.split() and str.strip(): whitespace handling of Python strings.     *)
(***************************************************************************)
IsSpace(c) == c \in {" ", "\t", "\n", "\r"}

\* len(chunk.split()): the number of maximal runs of non-whitespace characters
WordCount(s) ==
    Cardinality({i \in 1..Len(s) :
        /\ ~IsSpace(s[i])
        /\ (i = 1 \/ IsSpace(s[i - 1]))})

RECURSIVE LStrip(_)
LStrip(s) ==
    IF s # <<>> /\ IsSpace(Head(s)) THEN LStrip(Tail(s)) ELSE s

RECURSIVE RStrip(_)
RStrip(s) ==
    IF s # <<>> /\ IsSpace(s[Len(s)]) THEN RStrip(SubSeq(s, 1, Len(s) - 1)) ELSE s

StripNoTrailing(s) == LStrip(s)

\* generated.strip()
Strip(s) == RStrip(LStrip(s))

(***************************************************************************)
(* The lines of the streamed response.  A line is empty, is not JSON       *)
(* (json.loads raises), is JSON but not an object (a number, a list, a     *)
(* string, null), or is a chunk object with an optional "response" string  *)
(* and an optional "done" boolean.                                         *)
(***************************************************************************)
Absent == <<"absent">>

Fragments == { <<>>, <<" ">>, <<"a">>, <<"a", " ", "b">>, <<" ", "a", " ">> }

Line(kind, resp, done) == [kind |-> kind, response |-> resp, done |-> done]

EmptyLine == Line("empty", Absent, "absent")
GarbledLine == Line("garbled", Absent, "absent")
NonObjectLine == Line("nonobject", Absent, "absent")

ChunkLines ==
    { Line("object", r, d) : r \in Fragments \cup {Absent},
                             d \in {"absent", "false", "true"} }

LineValues == {EmptyLine, GarbledLine, NonObjectLine} \cup ChunkLines

Streams == UNION { [1..n -> LineValues] : n \in 0..MaxLines }

NumPredictValues == {2}

\* obj.get("done", False)
GetDone(obj) == obj.done = "true"

\* "response" in obj
HasResponse(obj) == obj.response # Absent

\* max(1, len(chunk.split()))
EstimateTokens(chunk) == Max(1, WordCount(chunk))

\* min(99, int(tokens / max(1, num_predict) * 100)); the quotient is a float
\* truncated by int(), which the integer quotient equals up to rounding
Percent(t, np) == Min(99, (t * 100) \div Max(1, np))

StreamIdle ==
    /\ lines = <<>>
    /\ num_predict = 0
    /\ pos = 0
    /\ generated = <<>>
    /\ tokens = 0
    /\ doneSeen = FALSE
    /\ progressLine = -1
    /\ spc = "idle"
    /\ result = <<>>
    /\ returns = 0

\* the state after lines 52-57: the request is accepted, nothing is read yet
StreamStart ==
    /\ lines \in Streams
    /\ num_predict \in NumPredictValues
    /\ pos = 0
    /\ generated = <<>>
    /\ tokens = 0
    /\ doneSeen = FALSE
    /\ progressLine = -1
    /\ spc = "streaming"
    /\ result = <<>>
    /\ returns = 0

HasLine == spc = "streaming" /\ pos < Len(lines)

\* `if not line: continue`
SkipEmpty ==
    /\ HasLine
    /\ lines[pos + 1].kind = "empty"
    /\ pos' = pos + 1
    /\ UNCHANGED <<lines, num_predict, generated, tokens, doneSeen,
                   progressLine, spc, result, returns>>
    /\ UNCHANGED <<retrVars, walkVars, extractVars>>

\* json.loads(line) raises: `except Exception: continue`
SkipGarbled ==
    /\ HasLine
    /\ lines[pos + 1].kind = "garbled"
    /\ pos' = pos + 1
    /\ UNCHANGED <<lines, num_predict, generated, tokens, doneSeen,
                   progressLine, spc, result, returns>>
    /\ UNCHANGED <<retrVars, walkVars, extractVars>>

\* json.loads(line) returns a value that is no dict: `"response" in obj` or
\* obj.get raises TypeError / AttributeError outside the try block
RaiseOnNonObject ==
    /\ HasLine
    /\ lines[pos + 1].kind = "nonobject"
    /\ pos' = pos + 1
    /\ spc' = "raised"
    /\ UNCHANGED <<lines, num_predict, generated, tokens, doneSeen,
                   progressLine, result, returns>>
    /\ UNCHANGED <<retrVars, walkVars, extractVars>>

\* the loop body for a chunk object; elapsed: now - last >= 0.1
HandleChunk(elapsed) ==
    /\ HasLine
    /\ lines[pos + 1].kind = "object"
    /\ LET obj == lines[pos + 1]
           done == GetDone(obj)
           newTokens == IF HasResponse(obj)
                        THEN tokens + EstimateTokens(obj.response)
                        ELSE tokens
       IN /\ pos' = pos + 1
          /\ generated' = IF HasResponse(obj)
                          THEN generated \o obj.response
                          ELSE generated
          /\ tokens' = newTokens
          /\ progressLine' = IF elapsed \/ done
                             THEN Percent(newTokens, num_predict)
                             ELSE progressLine
          /\ doneSeen' = done
          /\ spc' = IF done THEN "finishing" ELSE "streaming"
    /\ UNCHANGED <<lines, num_predict, result, returns>>
    /\ UNCHANGED <<retrVars, walkVars, extractVars>>

\* the iterator is exhausted without a terminal chunk: the for loop ends
StreamExhausted ==
    /\ spc = "streaming"
    /\ pos = Len(lines)
    /\ spc' = "finishing"
    /\ UNCHANGED <<lines, num_predict, pos, generated, tokens, doneSeen,
                   progressLine, result, returns>>
    /\ UNCHANGED <<retrVars, walkVars, extractVars>>

\* lines 83-86: the final progress line and the return
Finish ==
    /\ spc = "finishing"
    /\ progressLine' = 100
    /\ result' = Strip(generated)
    /\ returns' = returns + 1
    /\ spc' = "returned"
    /\ UNCHANGED <<lines, num_predict, pos, generated, tokens, doneSeen>>
    /\ UNCHANGED <<retrVars, walkVars, extractVars>>

StreamNext ==
    \/ SkipEmpty
    \/ SkipGarbled
    \/ RaiseOnNonObject
    \/ \E elapsed \in BOOLEAN : HandleChunk(elapsed)
    \/ StreamExhausted
    \/ Finish

(***************************************************************************)
(* run.py: build_index and retrieve.  A text is known to the index only    *)
(* through its embedding; the encoder is a fixed function of the text.     *)
(* Vectors have one coordinate, which is enough for distances to order     *)
(* and to tie.  FAISS labels are 0-based, as in the library.               *)
(***************************************************************************)
TextValues == {"overview", "workflow", "decline"}
QueryValues == {"explain workflow", "decline rules"}

\* enc.encode: the same text always gets the same vector
Encode(t) ==
    CASE t = "overview" -> 0
      [] t = "workflow" -> 2
      [] t = "decline" -> 5
      [] t = "explain workflow" -> 1
      [] t = "decline rules" -> 5

Corpora == UNION { [1..n -> TextValues] : n \in 0..MaxDocs }

\* squared Euclidean distance
L2(a, b) == (a - b) * (a - b)

\* the orders in which an exact search may list the stored vectors: by
\* non-decreasing distance, vectors at the same distance in either order
NearestOrders(vecs, qv) ==
    LET n == Len(vecs)
    IN { o \in [1..n -> 0..(n - 1)] :
            /\ \A i, j \in 1..n : i # j => o[i] # o[j]
            /\ \A i \in 1..n : i < n =>
                   L2(vecs[o[i] + 1], qv) <= L2(vecs[o[i + 1] + 1], qv) }

\* idx.search(qv, k): the labels row I[0]; slots past ntotal hold -1
SearchLabels(order, kk) ==
    [p \in 1..kk |-> IF p <= Len(order) THEN order[p] ELSE -1]

\* texts[i] for a Python list: a negative i counts from the end
PyInRange(list, i) == -Len(list) <= i /\ i < Len(list)
PyPosition(list, i) == IF i < 0 THEN i + Len(list) ELSE i
PyItem(list, i) == list[PyPosition(list, i) + 1]

RetrIdle ==
    /\ texts = <<>>
    /\ idx = <<>>
    /\ rpc = "idle"
    /\ k = 0
    /\ hits = <<>>
    /\ results = <<>>

\* the state after load_corpus
RetrStart ==
    /\ texts \in Corpora
    /\ idx = <<>>
    /\ rpc = "loaded"
    /\ k = 0
    /\ hits = <<>>
    /\ results = <<>>

\* build_index.  For an empty list enc.encode returns np.asarray([]), an
\* array of shape (0,), so emb.shape[1] raises IndexError before the index
\* is created
BuildIndex ==
    /\ rpc = "loaded"
    /\ IF Len(texts) = 0
       THEN /\ rpc' = "build_error"
            /\ idx' = idx
       ELSE /\ idx' = [i \in 1..Len(texts) |-> Encode(texts[i])]
            /\ rpc' = "indexed"
    /\ UNCHANGED <<texts, k, hits, results>>
    /\ UNCHANGED <<streamVars, walkVars, extractVars>>

\* retrieve(q, enc, idx, texts, kk)
Retrieve(q, kk) ==
    /\ rpc \in {"indexed", "retrieved"}
    /\ \E order \in NearestOrders(idx, Encode(q)) :
          LET I == SearchLabels(order, kk)
          IN IF \A p \in 1..kk : PyInRange(texts, I[p])
             THEN /\ hits' = [p \in 1..kk |-> PyPosition(texts, I[p])]
                  /\ results' = [p \in 1..kk |-> PyItem(texts, I[p])]
                  /\ rpc' = "retrieved"
             ELSE /\ hits' = <<>>
                  /\ results' = <<>>
                  /\ rpc' = "retrieve_error"
    /\ k' = kk
    /\ UNCHANGED <<texts, idx>>
    /\ UNCHANGED <<streamVars, walkVars, extractVars>>

RetrNext ==
    \/ BuildIndex
    \/ \E q \in QueryValues, kk \in 1..MaxK : Retrieve(q, kk)

(***************************************************************************)
(* extract.py.  A file or directory name is a sequence of characters; a    *)
(* path is the sequence of names below the extraction root, so the root    *)
(* is <<>> and os.path.relpath(p, root) is the path itself.                *)
(***************************************************************************)
ALLOWED_EXTS ==
    {
      <<".", "p", "y">>, <<".", "i", "p", "y", "n", "b">>, <<".", "j", "s">>,
      <<".", "m", "j", "s">>, <<".", "c", "j", "s">>, <<".", "t", "s">>, <<".", "t", "s", "x">>,
      <<".", "j", "s", "x">>, <<".", "v", "u", "e">>, <<".", "s", "v", "e", "l", "t", "e">>,
      <<".", "j", "a", "v", "a">>, <<".", "k", "t">>, <<".", "k", "t", "s">>,
      <<".", "s", "c", "a", "l", "a">>, <<".", "g", "o">>, <<".", "r", "s">>, <<".", "c">>,
      <<".", "h">>, <<".", "c", "p", "p">>, <<".", "c", "c">>, <<".", "c", "x", "x">>,
      <<".", "h", "p", "p">>, <<".", "h", "h">>, <<".", "m">>, <<".", "m", "m">>,
      <<".", "c", "s">>, <<".", "f", "s">>, <<".", "f", "s", "x">>, <<".", "p", "h", "p">>,
      <<".", "r", "b">>, <<".", "s", "w", "i", "f", "t">>, <<".", "l", "u", "a">>,
      <<".", "p", "l">>, <<".", "p", "m">>, <<".", "r">>, <<".", "d", "a", "r", "t">>,
      <<".", "g", "r", "o", "o", "v", "y">>, <<".", "g", "r", "a", "d", "l", "e">>,
      <<".", "s", "q", "l">>, <<".", "p", "r", "o", "t", "o">>,
      <<".", "g", "r", "a", "p", "h", "q", "l">>, <<".", "g", "q", "l">>,
      <<".", "j", "s", "o", "n">>, <<".", "j", "s", "o", "n", "5">>, <<".", "t", "o", "m", "l">>,
      <<".", "i", "n", "i">>, <<".", "c", "f", "g">>, <<".", "c", "o", "n", "f">>,
      <<".", "y", "a", "m", "l">>, <<".", "y", "m", "l">>, <<".", "e", "n", "v">>,
      <<".", "p", "r", "o", "p", "e", "r", "t", "i", "e", "s">>, <<".", "x", "m", "l">>,
      <<".", "h", "t", "m", "l">>, <<".", "h", "t", "m">>, <<".", "c", "s", "s">>,
      <<".", "s", "c", "s", "s">>, <<".", "s", "a", "s", "s">>, <<".", "l", "e", "s", "s">>,
      <<".", "m", "d">>, <<".", "m", "a", "r", "k", "d", "o", "w", "n">>, <<".", "r", "s", "t">>,
      <<".", "a", "d", "o", "c">>, <<".", "t", "x", "t">>, <<".", "c", "s", "v">>,
      <<".", "t", "s", "v">>, <<".", "l", "o", "g">>, <<".", "o", "r", "g">>
    }

\* the pairs <<basename, language>> of the SPECIAL_BASENAMES dict
SPECIAL_BASENAMES ==
    {
      <<<<"D", "o", "c", "k", "e", "r", "f", "i", "l", "e">>, <<"d", "o", "c", "k", "e", "r", "f", "i", "l", "e">>>>,
      <<<<"M", "a", "k", "e", "f", "i", "l", "e">>, <<"m", "a", "k", "e">>>>,
      <<<<"C", "M", "a", "k", "e", "L", "i", "s", "t", "s", ".", "t", "x", "t">>, <<"c", "m", "a", "k", "e">>>>,
      <<<<"B", "U", "I", "L", "D">>, <<"b", "a", "z", "e", "l">>>>,
      <<<<"W", "O", "R", "K", "S", "P", "A", "C", "E">>, <<"b", "a", "z", "e", "l">>>>,
      <<<<"P", "o", "d", "f", "i", "l", "e">>, <<"c", "o", "c", "o", "a", "p", "o", "d", "s">>>>,
      <<<<"G", "e", "m", "f", "i", "l", "e">>, <<"r", "u", "b", "y", "-", "g", "e", "m", "s">>>>,
      <<<<"r", "e", "q", "u", "i", "r", "e", "m", "e", "n", "t", "s", ".", "t", "x", "t">>, <<"p", "y", "t", "h", "o", "n", "-", "r", "e", "q", "s">>>>,
      <<<<"e", "n", "v", "i", "r", "o", "n", "m", "e", "n", "t", ".", "y", "m", "l">>, <<"c", "o", "n", "d", "a", "-", "e", "n", "v">>>>,
      <<<<"P", "i", "p", "f", "i", "l", "e">>, <<"p", "i", "p", "e", "n", "v">>>>,
      <<<<"P", "i", "p", "f", "i", "l", "e", ".", "l", "o", "c", "k">>, <<"p", "i", "p", "e", "n", "v", "-", "l", "o", "c", "k">>>>,
      <<<<"p", "a", "c", "k", "a", "g", "e", ".", "j", "s", "o", "n">>, <<"n", "p", "m">>>>,
      <<<<"p", "n", "p", "m", "-", "l", "o", "c", "k", ".", "y", "a", "m", "l">>, <<"p", "n", "p", "m", "-", "l", "o", "c", "k">>>>,
      <<<<"y", "a", "r", "n", ".", "l", "o", "c", "k">>, <<"y", "a", "r", "n", "-", "l", "o", "c", "k">>>>,
      <<<<"p", "o", "e", "t", "r", "y", ".", "l", "o", "c", "k">>, <<"p", "o", "e", "t", "r", "y", "-", "l", "o", "c", "k">>>>,
      <<<<"p", "y", "p", "r", "o", "j", "e", "c", "t", ".", "t", "o", "m", "l">>, <<"p", "y", "p", "r", "o", "j", "e", "c", "t">>>>,
      <<<<"C", "a", "r", "g", "o", ".", "t", "o", "m", "l">>, <<"c", "a", "r", "g", "o">>>>,
      <<<<"C", "a", "r", "g", "o", ".", "l", "o", "c", "k">>, <<"c", "a", "r", "g", "o", "-", "l", "o", "c", "k">>>>,
      <<<<"g", "o", ".", "m", "o", "d">>, <<"g", "o", "m", "o", "d">>>>,
      <<<<"g", "o", ".", "s", "u", "m">>, <<"g", "o", "s", "u", "m">>>>,
      <<<<"c", "o", "m", "p", "o", "s", "e", "r", ".", "j", "s", "o", "n">>, <<"c", "o", "m", "p", "o", "s", "e", "r">>>>,
      <<<<"c", "o", "m", "p", "o", "s", "e", "r", ".", "l", "o", "c", "k">>, <<"c", "o", "m", "p", "o", "s", "e", "r", "-", "l", "o", "c", "k">>>>,
      <<<<"p", "o", "m", ".", "x", "m", "l">>, <<"m", "a", "v", "e", "n">>>>,
      <<<<"b", "u", "i", "l", "d", ".", "g", "r", "a", "d", "l", "e", ".", "k", "t", "s">>, <<"g", "r", "a", "d", "l", "e", "-", "k", "t", "s">>>>,
      <<<<"b", "u", "i", "l", "d", ".", "g", "r", "a", "d", "l", "e">>, <<"g", "r", "a", "d", "l", "e">>>>,
      <<<<".", "g", "i", "t", "i", "g", "n", "o", "r", "e">>, <<"g", "i", "t">>>>,
      <<<<".", "g", "i", "t", "a", "t", "t", "r", "i", "b", "u", "t", "e", "s">>, <<"g", "i", "t">>>>,
      <<<<".", "e", "d", "i", "t", "o", "r", "c", "o", "n", "f", "i", "g">>, <<"e", "d", "i", "t", "o", "r">>>>
    }

IGNORE_DIRS ==
    {
      <<".", "g", "i", "t">>, <<".", "h", "g">>, <<".", "s", "v", "n">>, <<".", "b", "z", "r">>,
      <<"n", "o", "d", "e", "_", "m", "o", "d", "u", "l", "e", "s">>, <<"d", "i", "s", "t">>,
      <<"b", "u", "i", "l", "d">>, <<"o", "u", "t">>, <<"t", "a", "r", "g", "e", "t">>,
      <<".", "i", "d", "e", "a">>, <<".", "v", "s", "c", "o", "d", "e">>, <<".", "v", "s">>,
      <<"_", "_", "p", "y", "c", "a", "c", "h", "e", "_", "_">>, <<".", "v", "e", "n", "v">>,
      <<"v", "e", "n", "v">>, <<".", "m", "y", "p", "y", "_", "c", "a", "c", "h", "e">>,
      <<".", "p", "y", "t", "e", "s", "t", "_", "c", "a", "c", "h", "e">>,
      <<".", "g", "r", "a", "d", "l", "e">>, <<".", "n", "e", "x", "t">>,
      <<".", "n", "u", "x", "t">>,
      <<".", "p", "a", "r", "c", "e", "l", "-", "c", "a", "c", "h", "e">>
    }

UpperCase == <<"A", "B", "C", "D", "E", "F", "G", "H", "I", "J", "K", "L", "M",
               "N", "O", "P", "Q", "R", "S", "T", "U", "V", "W", "X", "Y", "Z">>
LowerCase == <<"a", "b", "c", "d", "e", "f", "g", "h", "i", "j", "k", "l", "m",
               "n", "o", "p", "q", "r", "s", "t", "u", "v", "w", "x", "y", "z">>

\* str.lower(), character by character
LowerChar(c) ==
    IF \E i \in 1..Len(UpperCase) : UpperCase[i] = c
    THEN LowerCase[CHOOSE i \in 1..Len(UpperCase) : UpperCase[i] = c]
    ELSE c

Lower(s) == [i \in 1..Len(s) |-> LowerChar(s[i])]

\* the characters of the model's names in code point order
CodePointOrder == <<"-", ".">> \o UpperCase \o <<"_">> \o LowerCase

CharRank(c) == CHOOSE i \in 1..Len(CodePointOrder) : CodePointOrder[i] = c

\* a < b for Python strings
NameLess(a, b) ==
    \E i \in 1..(Min(Len(a), Len(b)) + 1) :
        /\ \A j \in 1..(i - 1) : a[j] = b[j]
        /\ \/ i > Len(a) /\ i <= Len(b)
           \/ /\ i <= Len(a)
              /\ i <= Len(b)
              /\ CharRank(a[i]) < CharRank(b[i])

\* pathlib's PurePath.suffix: from the last dot, unless the name has no dot,
\* starts with its only dot or ends with a dot
Suffix(name) ==
    LET dots == {i \in 1..Len(name) : name[i] = "."}
        i == IF dots = {} THEN 0 ELSE CHOOSE d \in dots : \A e \in dots : e <= d
    IN IF 1 < i /\ i < Len(name) THEN SubSeq(name, i, Len(name)) ELSE <<>>

IsSpecialBasename(name) == \E pr \in SPECIAL_BASENAMES : pr[1] = name

is_allowed_file(name) ==
    IF IsSpecialBasename(name)
    THEN TRUE
    ELSE Lower(Suffix(name)) \in ALLOWED_EXTS

\* ext.lstrip(".")
RECURSIVE LStripDots(_)
LStripDots(s) == IF s # <<>> /\ Head(s) = "." THEN LStripDots(Tail(s)) ELSE s

detect_lang(name) ==
    IF IsSpecialBasename(name)
    THEN (CHOOSE pr \in SPECIAL_BASENAMES : pr[1] = name)[2]
    ELSE LET ext == LStripDots(Lower(Suffix(name)))
         IN IF ext # <<>> THEN ext ELSE <<"p", "l", "a", "i", "n">>

(***************************************************************************)
(* The filesystem snapshot: the set of the file paths below the root.  A   *)
(* directory exists when a file lies beneath it.                           *)
(***************************************************************************)
MaxFiles == 2

DirNames == { <<"s", "r", "c">>,
              <<"n", "o", "d", "e", "_", "m", "o", "d", "u", "l", "e", "s">> }

FileNames == { <<"a", ".", "p", "y">>,
               <<"b", ".", "P", "Y">>,
               <<"M", "a", "k", "e", "f", "i", "l", "e">>,
               <<"c", ".", "e", "x", "e">>,
               <<".", "e", "n", "v">> }

RootName == <<"p", "r", "o", "j">>

DirPaths == {<<>>} \cup { <<d>> : d \in DirNames }
                   \cup { <<d, e>> : d \in DirNames, e \in DirNames }

FilePaths == { d \o <<f>> : d \in DirPaths, f \in FileNames }

RECURSIVE TreesUpTo(_)
TreesUpTo(n) ==
    IF n = 0
    THEN {{}}
    ELSE LET fewer == TreesUpTo(n - 1)
         IN fewer \cup { t \cup {f} : t \in fewer, f \in FilePaths }

\* every snapshot of at most MaxFiles files
Trees == TreesUpTo(MaxFiles)

IsPrefix(d, p) == Len(d) <= Len(p) /\ SubSeq(p, 1, Len(d)) = d

\* the names os.scandir(cur) reports as directories and as files
SubdirNames(tr, cur) ==
    { p[Len(cur) + 1] : p \in { q \in tr : IsPrefix(cur, q) /\ Len(q) > Len(cur) + 1 } }
FileNamesIn(tr, cur) ==
    { p[Len(cur) + 1] : p \in { q \in tr : IsPrefix(cur, q) /\ Len(q) = Len(cur) + 1 } }

\* the orders in which the operating system may list a set of names
Listings(S) ==
    { s \in [1..Cardinality(S) -> S] : \A i, j \in 1..Cardinality(S) : i # j => s[i] # s[j] }

\* sorted(files)
Sorted(S) ==
    CHOOSE s \in Listings(S) : \A i \in 1..(Len(s) - 1) : NameLess(s[i], s[i + 1])

NotIgnored(d) == d \notin IGNORE_DIRS

KeepEveryDir(dirs) == dirs

\* dirs[:] = [d for d in dirs if d not in IGNORE_DIRS]
KeepDirs(dirs) == SelectSeq(dirs, NotIgnored)

Under(cur, names) == [i \in 1..Len(names) |-> cur \o <<names[i]>>]

\* tree_lines(root): os.walk with the files of a directory sorted, the
\* subdirectories in the order the operating system lists them (dirOrder)
TreeLine(indent, branch, name) == [indent |-> indent, branch |-> branch, name |-> name]

RECURSIVE TreeWalk(_, _, _)
TreeWalk(tr, pending, dirOrder) ==
    IF pending = <<>>
    THEN <<>>
    ELSE LET cur == Head(pending)
             depth == Len(cur)
             subdirs == SubdirNames(tr, cur)
             InCur(d) == d \in subdirs
             dirs == KeepDirs(SelectSeq(dirOrder, InCur))
             files == SelectSeq(Sorted(FileNamesIn(tr, cur)), is_allowed_file)
             own == IF depth > 0
                    THEN <<TreeLine(depth - 1, "dir", cur[depth])>>
                    ELSE <<>>
         IN own \o [i \in 1..Len(files) |-> TreeLine(depth, "file", files[i])]
                \o TreeWalk(tr, Under(cur, dirs) \o Tail(pending), dirOrder)

tree_lines(tr, dirOrder) == TreeWalk(tr, <<<<>>>>, dirOrder)

\* one step of the os.walk loop of file_iter: list the directory on top of
\* the walk, prune its subdirectories, yield its allowed files in the order
\* listed, then descend into the kept subdirectories in the order listed
ListDirectory ==
    /\ stack # <<>>
    /\ LET cur == Head(stack)
       IN \E dirs \in Listings(SubdirNames(tree, cur)),
             files \in Listings(FileNamesIn(tree, cur)) :
             /\ out' = out \o Under(cur, SelectSeq(files, is_allowed_file))
             /\ stack' = Under(cur, KeepDirs(dirs)) \o Tail(stack)

WalkIdle ==
    /\ tree = {}
    /\ stack = <<>>
    /\ out = <<>>
    /\ prevOut = <<>>
    /\ hasPrev = FALSE

\* list(file_iter(root)) is called on a snapshot
WalkStart ==
    /\ tree \in Trees
    /\ stack = << <<>> >>
    /\ out = <<>>
    /\ prevOut = <<>>
    /\ hasPrev = FALSE

FileIterStep ==
    /\ epc = "idle"
    /\ ListDirectory
    /\ UNCHANGED <<tree, prevOut, hasPrev>>
    /\ UNCHANGED <<streamVars, retrVars, extractVars>>

\* file_iter(root) is called again on the same snapshot
FileIterAgain ==
    /\ epc = "idle"
    /\ stack = <<>>
    /\ prevOut' = out
    /\ hasPrev' = TRUE
    /\ out' = <<>>
    /\ stack' = << <<>> >>
    /\ UNCHANGED tree
    /\ UNCHANGED <<streamVars, retrVars, extractVars>>

WalkNext == FileIterStep \/ FileIterAgain

(***************************************************************************)
(* read_text_file and the loop of main.  What a file holds is abstracted   *)
(* to which codecs decode it; each filesystem call may fail.               *)
(***************************************************************************)
MAX_BYTES == 2097152

ENCODINGS == <<"utf-8", "utf-16", "latin-1">>

ByteKinds == {"utf8", "utf16", "binary"}
Sizes == {0, MAX_BYTES, MAX_BYTES + 1}

FsCalls == {"getsize", "open utf-8", "open utf-16", "open latin-1", "open rb",
            "getsize of record"}

\* open(path, "r", encoding=enc, errors="strict").read() succeeds
Decodes(bytes, enc) ==
    CASE enc = "utf-8" -> bytes = "utf8"
      [] enc = "utf-16" -> bytes = "utf16"
      [] enc = "latin-1" -> TRUE

Text(bytes, codec, length) == [bytes |-> bytes, codec |-> codec, length |-> length]
NoText == Text("none", "none", 0)

\* read_text_file(path): [raised, text]
read_text_file(bytes, size, ok) ==
    IF ~ok["getsize"]
    THEN [raised |-> TRUE, text |-> NoText]
    ELSE IF size > MAX_BYTES
    THEN IF ok["open rb"]
         THEN [raised |-> FALSE, text |-> Text(bytes, "utf-8 ignore", MAX_BYTES)]
         ELSE [raised |-> TRUE, text |-> NoText]
    ELSE LET good == {i \in 1..Len(ENCODINGS) :
                         ok["open " \o ENCODINGS[i]] /\ Decodes(bytes, ENCODINGS[i])}
         IN IF good # {}
            THEN [raised |-> FALSE,
                  text |-> Text(bytes,
                                ENCODINGS[CHOOSE i \in good : \A j \in good : i <= j],
                                size)]
            ELSE IF ok["open rb"]
            THEN [raised |-> FALSE, text |-> Text(bytes, "utf-8 ignore", size)]
            ELSE [raised |-> TRUE, text |-> NoText]

TreeSentinel == <<"_", "_", "T", "R", "E", "E", "_", "_">>

\* the lines of the corpus file, as the objects json.dumps is given; a key
\* an object does not have is "none"
Manifest(tlines) ==
    [path |-> <<TreeSentinel>>, type |-> "tree", lang |-> "none", size |-> -1,
     text |-> tlines]
Item(path, lang, size, text) ==
    [path |-> path, type |-> "none", lang |-> lang, size |-> size, text |-> text]
SeedDoc(id) ==
    [path |-> <<>>, type |-> "none", lang |-> "none", size |-> -1, text |-> id]

NoManifest == SeedDoc("none")
NoFile == [exists |-> FALSE, lines |-> <<>>]

\* write_jsonl(manifest_line, items): the file is replaced
write_jsonl(manifest_line, objs) ==
    [exists |-> TRUE, lines |-> <<manifest_line>> \o objs]

ExtractIdle ==
    /\ corpus = NoFile
    /\ epc = "idle"
    /\ manifest = NoManifest
    /\ items = <<>>
    /\ next = 0

\* setup.py, ensure_corpus: data/corpus.jsonl is the file extract.py writes
\* and run.py reads when the scripts sit in current/
ensure_corpus ==
    /\ epc \in {"idle", "done", "aborted", "exit 2"}
    /\ corpus' = IF corpus.exists
                 THEN corpus
                 ELSE [exists |-> TRUE,
                       lines |-> <<SeedDoc("doc1"), SeedDoc("doc2"), SeedDoc("doc3")>>]
    /\ UNCHANGED <<epc, manifest, items, next, tree, stack, out, prevOut, hasPrev>>
    /\ UNCHANGED <<streamVars, retrVars>>

\* main, lines 139-142: the project argument is not a directory
MainNotADirectory ==
    /\ epc = "idle"
    /\ stack = <<>>
    /\ out = <<>>
    /\ epc' = "exit 2"
    /\ UNCHANGED <<corpus, manifest, items, next, tree, stack, out, prevOut, hasPrev>>
    /\ UNCHANGED <<streamVars, retrVars>>

\* main, lines 144-154: the manifest is built and the loop over file_iter starts
MainStart ==
    /\ epc = "idle"
    /\ stack = <<>>
    /\ out = <<>>
    /\ \E dirOrder \in Listings(DirNames) :
          manifest' = Manifest(<<TreeLine(0, "root", RootName)>>
                               \o tree_lines(tree, dirOrder))
    /\ stack' = << <<>> >>
    /\ items' = <<>>
    /\ next' = 0
    /\ epc' = "walking"
    /\ UNCHANGED <<corpus, tree, out, prevOut, hasPrev>>
    /\ UNCHANGED <<streamVars, retrVars>>

\* the generator file_iter runs on when the loop asks for the next path
MainFileIterStep ==
    /\ epc = "walking"
    /\ next = Len(out)
    /\ ListDirectory
    /\ UNCHANGED <<corpus, epc, manifest, items, next, tree, prevOut, hasPrev>>
    /\ UNCHANGED <<streamVars, retrVars>>

\* main, lines 155-173: the loop body for the next path
ProcessFile ==
    /\ epc = "walking"
    /\ next < Len(out)
    /\ next' = next + 1
    /\ \E bytes \in ByteKinds, size \in Sizes, ok \in [FsCalls -> BOOLEAN] :
          LET p == out[next + 1]
              read == read_text_file(bytes, size, ok)
          IN IF read.raised
             THEN UNCHANGED <<items, epc>>
             ELSE IF ~ok["getsize of record"]
             THEN /\ epc' = "aborted"
                  /\ UNCHANGED items
             ELSE /\ items' = Append(items,
                                     Item(p, detect_lang(p[Len(p)]), size, read.text))
                  /\ UNCHANGED epc
    /\ UNCHANGED <<corpus, manifest, tree, stack, out, prevOut, hasPrev>>
    /\ UNCHANGED <<streamVars, retrVars>>

\* main, lines 175-176: the walk is over, the corpus file is written
MainWrite ==
    /\ epc = "walking"
    /\ stack = <<>>
    /\ next = Len(out)
    /\ corpus' = write_jsonl(manifest, items)
    /\ epc' = "done"
    /\ UNCHANGED <<manifest, items, next, tree, stack, out, prevOut, hasPrev>>
    /\ UNCHANGED <<streamVars, retrVars>>

ExtractNext ==
    \/ ensure_corpus
    \/ MainNotADirectory
    \/ MainStart
    \/ MainFileIterStep
    \/ ProcessFile
    \/ MainWrite

vars == <<streamVars, retrVars, walkVars, extractVars>>

InitStream == StreamStart /\ RetrIdle /\ WalkIdle /\ ExtractIdle
SpecStream == InitStream /\ [][StreamNext]_vars

InitRetrieve == RetrStart /\ StreamIdle /\ WalkIdle /\ ExtractIdle
SpecRetrieve == InitRetrieve /\ [][RetrNext]_vars

InitWalk == WalkStart /\ ExtractIdle /\ StreamIdle /\ RetrIdle
SpecWalk == InitWalk /\ [][WalkNext]_vars

\* extract.py is run once on a snapshot; setup.py may run before or after it
ExtractStart ==
    /\ tree \in Trees
    /\ stack = <<>>
    /\ out = <<>>
    /\ prevOut = <<>>
    /\ hasPrev = FALSE

InitExtract == ExtractStart /\ ExtractIdle /\ StreamIdle /\ RetrIdle
SpecExtract == InitExtract /\ [][ExtractNext]_vars

(***************************************************************************)
(* Properties.                                                             *)
(***************************************************************************)

\* ---- run.py, retrieve and build_index ----

Distinct(s) == \A i, j \in 1..Len(s) : i # j => s[i] # s[j]

\* C1: whenever retrieve is called with k greater than the number n of corpus
\* documents, it raises no error and returns exactly n documents, each
\* corpus document at most once.
C1_KOverflowReturnsWholeCorpus ==
    /\ rpc = "retrieve_error" => k <= Len(texts)
    /\ (rpc = "retrieved" /\ k > Len(texts)) =>
           /\ Len(results) = Len(texts)
           /\ Distinct(hits)

\* C10: with zero documents build_index completes without error, the index
\* holds 0 vectors, and every retrieve call returns no documents.
C10_EmptyCorpusIndexes ==
    Len(texts) = 0 =>
        /\ rpc \notin {"build_error", "retrieve_error"}
        /\ rpc = "indexed" => Len(idx) = 0
        /\ rpc = "retrieved" => results = <<>>

\* ---- run.py, stream_generate ----

IsTerminal(i) == lines[i].kind = "object" /\ GetDone(lines[i])
HasTerminal == \E i \in 1..Len(lines) : IsTerminal(i)
FirstTerminal == CHOOSE i \in 1..Len(lines) : IsTerminal(i) /\ \A j \in 1..(i - 1) : ~IsTerminal(j)

CarriesFragment(i) == lines[i].kind = "object" /\ lines[i].response # Absent

\* the response fragments of the first n lines, concatenated
RECURSIVE TextOf(_)
TextOf(n) ==
    IF n = 0 THEN <<>>
    ELSE TextOf(n - 1) \o (IF CarriesFragment(n) THEN lines[n].response ELSE <<>>)

\* the token estimate the loop adds up over the first n lines
RECURSIVE TokensOf(_)
TokensOf(n) ==
    IF n = 0 THEN 0
    ELSE TokensOf(n - 1) + (IF CarriesFragment(n) THEN EstimateTokens(lines[n].response) ELSE 0)

\* r is g without its leading and trailing whitespace
IsTrimOf(r, g) ==
    /\ \E i \in 1..(Len(g) + 1), j \in 0..Len(g) :
          /\ r = SubSeq(g, i, j)
          /\ \A x \in 1..(i - 1) : IsSpace(g[x])
          /\ \A x \in (j + 1)..Len(g) : IsSpace(g[x])
    /\ r # <<>> => ~IsSpace(r[1]) /\ ~IsSpace(r[Len(r)])

\* the first n lines are chunk objects, empty lines or unparsable lines
ChunksUpTo(n) == \A i \in 1..n : lines[i].kind # "nonobject"

\* C2: once the first chunk with done=true is parsed, no later line is taken
\* and text and token count stay those accumulated up to that chunk; the
\* call then ends by returning, once, with the final progress line at 100%
\* and the fragments up to the terminal chunk, trimmed, as its value.  A
\* stream of chunk objects, empty lines and unparsable lines that has a
\* terminal chunk is read up to that chunk and no further; the call ends
\* without returning only by the error a non-object JSON line raises.
C2_TerminalChunkEndsStream ==
    /\ doneSeen =>
           /\ HasTerminal
           /\ pos = FirstTerminal
           /\ generated = TextOf(FirstTerminal)
           /\ tokens = TokensOf(FirstTerminal)
           /\ spc \in {"finishing", "returned"}
    /\ (spc = "returned" /\ HasTerminal) =>
           /\ doneSeen
           /\ progressLine = 100
           /\ returns = 1
           /\ IsTrimOf(result, TextOf(FirstTerminal))
    /\ spc # "returned" => returns = 0
    /\ spc = "raised" => lines[pos].kind = "nonobject"
    /\ (HasTerminal /\ ChunksUpTo(FirstTerminal)) =>
           /\ spc # "raised"
           /\ spc = "streaming" => pos < FirstTerminal
           /\ spc \in {"finishing", "returned"} => doneSeen

\* a call returned at a terminal chunk that had lines after it, and the
\* trimming removed something
C2_Witness ==
    /\ spc = "returned"
    /\ doneSeen
    /\ pos < Len(lines)
    /\ CarriesFragment(Len(lines))
    /\ result # generated
    /\ result # <<>>

\* C3: while no chunk with done=true has been parsed, every progress line
\* written reports at most 99%; 100% is written only after such a chunk.
C3_HundredOnlyAfterDone ==
    ~doneSeen => progressLine <= 99

\* C4: every line that is empty or is not a JSON object is skipped without
\* an error, leaving text and token estimate as they were.
C4_MalformedLinesSkipped ==
    /\ spc # "raised"
    /\ generated = TextOf(pos)
    /\ tokens = TokensOf(pos)

\* the estimate the specification gives a fragment: its word count, raised
\* to 1 only when the fragment is not empty
SpecifiedEstimate(chunk) == IF chunk = <<>> THEN 0 ELSE Max(1, WordCount(chunk))

RECURSIVE SpecifiedTokensOf(_)
SpecifiedTokensOf(n) ==
    IF n = 0 THEN 0
    ELSE SpecifiedTokensOf(n - 1)
         + (IF CarriesFragment(n) THEN SpecifiedEstimate(lines[n].response) ELSE 0)

\* C8: the token estimate is the sum over the processed chunks that carry a
\* fragment of the fragment's word count, at least 1 for a non-empty
\* fragment and 0 for an empty one.
C8_TokenEstimateIsWordCount ==
    spc # "raised" => tokens = SpecifiedTokensOf(pos)

\* ---- extract.py and setup.py ----

IsManifest(rec) == rec.path = <<TreeSentinel>> /\ rec.type = "tree"

\* C5: whenever the corpus file exists it holds exactly one manifest record,
\* and that record is its first line.
C5_OneManifestFirst ==
    corpus.exists =>
        /\ Len(corpus.lines) >= 1
        /\ IsManifest(corpus.lines[1])
        /\ Cardinality({i \in 1..Len(corpus.lines) : IsManifest(corpus.lines[i])}) = 1

\* C6: two complete walks of the same snapshot yield the same sequence of
\* paths, whatever order the operating system lists the directories in.
C6_WalkOrderStable ==
    (hasPrev /\ stack = <<>>) => out = prevOut

\* the files the filter is specified to keep: not beneath a directory whose
\* name is ignored, and with a special basename or an allowed extension
UnderIgnoredDir(p) == \E i \in 1..(Len(p) - 1) : p[i] \in IGNORE_DIRS
SpecifiedAllowed(name) ==
    \/ \E pr \in SPECIAL_BASENAMES : pr[1] = name
    \/ Lower(Suffix(name)) \in ALLOWED_EXTS
SpecifiedYield(tr) == { p \in tr : ~UnderIgnoredDir(p) /\ SpecifiedAllowed(p[Len(p)]) }

\* C7: file_iter never yields a file that is beneath an ignored directory or
\* is not allowed, yields no file twice, and when the walk is over has
\* yielded exactly the allowed files that are beneath no ignored directory.
C7_WalkYieldsAllowedFiles ==
    /\ \A i \in 1..Len(out) : out[i] \in SpecifiedYield(tree)
    /\ Distinct(out)
    /\ stack = <<>> => { out[i] : i \in 1..Len(out) } = SpecifiedYield(tree)

\* a finished walk that yielded a file and pruned an allowed file beneath an
\* ignored directory
C7_Witness ==
    /\ stack = <<>>
    /\ out # <<>>
    /\ \E p \in tree : UnderIgnoredDir(p) /\ SpecifiedAllowed(p[Len(p)])

\* C9: a filesystem failure on a single file never aborts the run; the run
\* ends with the corpus file holding the manifest and the records built.
C9_FileFailureNeverAborts ==
    /\ epc # "aborted"
    /\ epc = "done" => corpus = write_jsonl(manifest, items)

====
